---- MODULE Spec2Model ----
(***************************************************************************)
(* Ticket booking backend: the inventory reservation protocol.             *)
(*                                                                         *)
(* The store is a relational database used at READ COMMITTED isolation:    *)
(* `inventory' and `bookings' are the committed tables, `tx' holds the     *)
(* uncommitted writes of each open transaction, `rowLock' the row lock     *)
(* taken by SELECT ... FOR UPDATE and kept until commit or rollback.       *)
(* Every `await' of bookTickets is one step of the booking attempt.        *)
(***************************************************************************)
EXTENDS Integers, FiniteSets, Sequences, TLC

\* ---------------------------------------------------------------- bounds
MaxReqs == 2        \* concurrent bookTickets invocations
MaxQty == 2         \* largest requested quantity
MaxStock == 2       \* totalQuantity of every seeded tier
MaxSignals == 2     \* shutdown triggers delivered to the process
MaxConnections == 1 \* connections open on the HTTP server

\* ------------------------------------------------------------- constants
TicketTier == {"VIP", "FRONT_ROW", "GA"}

\* rows the integration tests provision; FRONT_ROW has no row
SeededTiers == {"GA", "VIP"}

Price(t) == IF t = "VIP" THEN 100 ELSE IF t = "FRONT_ROW" THEN 50 ELSE 10

HTTP_STATUS ==
  [OK |-> 200, BAD_REQUEST |-> 400, UNAUTHORIZED |-> 401, FORBIDDEN |-> 403,
   NOT_FOUND |-> 404, CONFLICT |-> 409, UNPROCESSABLE_ENTITY |-> 422,
   INTERNAL_SERVER_ERROR |-> 500]

ERROR_CODES ==
  [BAD_REQUEST |-> "BAD_REQUEST", UNAUTHORIZED |-> "UNAUTHORIZED",
   FORBIDDEN |-> "FORBIDDEN", NOT_FOUND |-> "NOT_FOUND", CONFLICT |-> "CONFLICT",
   UNPROCESSABLE_ENTITY |-> "UNPROCESSABLE_ENTITY",
   INTERNAL_ERROR |-> "INTERNAL_ERROR"]

ERROR_NAMES ==
  [BAD_REQUEST |-> "BadRequestError", UNAUTHORIZED |-> "UnauthorizedError",
   FORBIDDEN |-> "ForbiddenError", NOT_FOUND |-> "NotFoundError",
   CONFLICT |-> "ConflictError", UNPROCESSABLE_ENTITY |-> "UNPROCESSABLE_ENTITY",
   PAYMENT_FAILED |-> "PaymentFailedError", VALIDATION |-> "ValidationError",
   INTERNAL_SERVER_ERROR |-> "InternalServerError"]

\* a member of a constants table, `undefined' when the table has no such key
Lookup(table, key) == IF key \in DOMAIN table THEN table[key] ELSE "undefined"

\* ---------------------------------------------------------------- errors
\* a thrown value; kind is the class globalErrorHandler tests with instanceof,
\* details the path of its first detail entry ("" when details is null)
AppError(name, message, status, code, details) ==
  [kind |-> "AppError", name |-> name, message |-> message, status |-> status,
   code |-> code, details |-> details, isOperational |-> TRUE]

NoError == [kind |-> "", name |-> "", message |-> "", status |-> 0, code |-> "",
            details |-> "", isOperational |-> FALSE]

NotFoundError(message) ==
  AppError(ERROR_NAMES.NOT_FOUND, message, HTTP_STATUS.NOT_FOUND,
           ERROR_CODES.NOT_FOUND, "")

UnprocessableEntityError(message, details) ==
  AppError(ERROR_NAMES.UNPROCESSABLE_ENTITY, message,
           HTTP_STATUS.UNPROCESSABLE_ENTITY, ERROR_CODES.UNPROCESSABLE_ENTITY,
           details)

PaymentFailedError(message, details) ==
  AppError(ERROR_NAMES.PAYMENT_FAILED, message,
           HTTP_STATUS.UNPROCESSABLE_ENTITY,
           Lookup(ERROR_CODES, "PAYMENT_FAILED"), details)

BadRequestError(message, details) ==
  AppError(ERROR_NAMES.BAD_REQUEST, message, HTTP_STATUS.BAD_REQUEST,
           ERROR_CODES.BAD_REQUEST, details)

UnauthorizedError(message) ==
  AppError(ERROR_NAMES.UNAUTHORIZED, message, HTTP_STATUS.UNAUTHORIZED,
           ERROR_CODES.UNAUTHORIZED, "")

ForbiddenError(message) ==
  AppError(ERROR_NAMES.FORBIDDEN, message, HTTP_STATUS.FORBIDDEN,
           ERROR_CODES.FORBIDDEN, "")

ConflictError(message, details) ==
  AppError(ERROR_NAMES.CONFLICT, message, HTTP_STATUS.CONFLICT,
           ERROR_CODES.CONFLICT, details)

\* an AppError that is not operational
InternalServerError(message) ==
  [AppError(ERROR_NAMES.INTERNAL_SERVER_ERROR, message,
            HTTP_STATUS.INTERNAL_SERVER_ERROR, ERROR_CODES.INTERNAL_ERROR, "")
     EXCEPT !.isOperational = FALSE]

\* what schema.parse throws: the issues carry the path of the rejected field
ZodError(path) ==
  [kind |-> "ZodError", name |-> "ZodError", message |-> "invalid input",
   status |-> 0, code |-> "", details |-> path, isOperational |-> FALSE]

\* what express.json() passes on for a malformed body: a SyntaxError with
\* status 400 and the body
BodyParseError ==
  [kind |-> "SyntaxError", name |-> "SyntaxError",
   message |-> "Unexpected end of JSON input", status |-> 400, code |-> "",
   details |-> "", isOperational |-> FALSE]

\* a SyntaxError that does not come from the body parser (no status, no body)
ScriptSyntaxError ==
  [kind |-> "SyntaxError", name |-> "SyntaxError",
   message |-> "Unexpected token", status |-> 0, code |-> "",
   details |-> "", isOperational |-> FALSE]

\* a thrown value that is no AppError but carries isOperational, status, code
\* and details of its own
OperationalError ==
  [kind |-> "Error", name |-> "Error", message |-> "connect ECONNREFUSED",
   status |-> 503, code |-> "ECONNREFUSED", details |-> "host",
   isOperational |-> TRUE]

\* the store's error for a transaction that expired while waiting for a lock:
\* not an AppError
TransactionTimeoutError ==
  [kind |-> "Error", name |-> "PrismaClientKnownRequestError",
   message |-> "P2028", status |-> 0, code |-> "P2028", details |-> "",
   isOperational |-> FALSE]

\* the store's error for a statement that fails (connection lost, constraint
\* violated): not an AppError
DatabaseError ==
  [kind |-> "Error", name |-> "PrismaClientUnknownRequestError",
   message |-> "database error", status |-> 0, code |-> "", details |-> "",
   isOperational |-> FALSE]

\* no run of the repository variants
NoInput == [availableQuantity |-> 0, quantity |-> <<>>, commits |-> <<>>]
NoRuns == [input |-> NoInput, lockThenCheck |-> {}, guardedUpdate |-> {}]

\* app.listen(PORT): the server accepts connections, the database client is
\* connected, no shutdown was asked for
Listening ==
  [listening |-> TRUE, closed |-> FALSE, connections |-> 0, signals |-> 0,
   callbacks |-> 0, disconnects |-> 0, db |-> "connected", timers |-> 0,
   received |-> "", failed |-> FALSE, fired |-> FALSE, exited |-> FALSE,
   exitCode |-> 0]

\* ----------------------------------------------------------------- state
VARIABLES
  inventory,   \* committed TicketInventory rows, by tier
  bookings,    \* committed Booking rows
  bookingSeq,  \* the SERIAL sequence of Booking.id
  rowLock,     \* tier -> the attempt holding the row lock, 0 when free
  pc,          \* attempt -> its position in bookTickets
  payload,     \* attempt -> {userId, tier, quantity}
  tx,          \* attempt -> uncommitted writes of its transaction
  local,       \* attempt -> the local variables of bookTickets
  outcome,     \* attempt -> how the promise of bookTickets settled
  seed,        \* the inventory as provisioned
  lastRead,    \* what the latest unlocked read (findAll) returned
  response,    \* attempt -> the HTTP response sent for its request
  reached,     \* the runs of the two decrementQuantity variants on one input
  proc         \* the server process: listening, shutting down, exited

vars == <<inventory, bookings, bookingSeq, rowLock, pc, payload, tx, local,
          outcome, seed, lastRead, response, reached, proc>>

Reqs == 1..MaxReqs
\* the requester of attempt r: two requesters take turns
UserOf(r) == IF r % 2 = 1 THEN "user-1" ELSE "user-2"
Quantities == 1..MaxQty

NoBooking == [id |-> 0, userId |-> "", tier |-> "", quantity |-> 0, status |-> ""]
NoPayload == [userId |-> "", tier |-> "", quantity |-> 0]
NoValue == [tier |-> "", bookedQuantity |-> 0, remainingQuantity |-> 0,
            totalAmount |-> 0]

\* a transaction that has written nothing
NoTx == [written |-> FALSE, availableQuantity |-> 0, booking |-> NoBooking]

\* a request body: quantity is a JSON value, a number being held as twice its
\* value so that halves are expressible; "undefined" is a missing member
NoRequest == [userId |-> "undefined", tier |-> "undefined",
              quantity |-> [type |-> "undefined", twice |-> 0]]

\* the locals of a request and of bookTickets before any statement ran.  body:
\* req.body; nextErr: the error passed to next(); sentBy: who wrote the
\* response ("controller", or "errorHandler").  selected: the locked
\* SELECT returned currentQuantity; returned: decrementQuantity returned count;
\* before/after: the committed count of the tier when the lock was taken and
\* when the transaction ended; bookingId: the Booking row the attempt created;
\* decrementCalls, paymentCalls: how often decrementQuantity was called and
\* simulatePayment resolved; ticketAvailable: the availableQuantity of the
\* `ticket' that the first findByTier returned
NoLocal == [body |-> NoRequest, nextErr |-> NoError, sentBy |-> "",
            ticketAvailable |-> 0, totalAmount |-> 0, decrementCalls |-> 0,
            selected |-> FALSE, currentQuantity |-> 0,
            returned |-> FALSE, count |-> 0,
            paymentCalls |-> 0, paymentSuccess |-> FALSE,
            remainingQuantity |-> 0, before |-> 0,
            after |-> 0, bookingId |-> 0, error |-> NoError]
Pending == [status |-> "pending", value |-> NoValue, error |-> NoError]

\* the JSON body member `error'; a member that is undefined is left out of
\* the body and reads "undefined" here.  The member `data' of a response is
\* `data' here for the result of a booking and `tickets' for a listing
NoBody == [name |-> "", code |-> "", message |-> "", details |-> ""]
NoResponse == [status |-> 0, success |-> FALSE, data |-> NoValue, tickets |-> <<>>, error |-> NoBody]

\* ------------------------------------------------------------ repository
\* (variant: the statement runs on the plain client and sees committed rows
\* only)
ReadCommitted(r, t) == inventory[t].availableQuantity

\* a row as a statement of transaction r reads it: its own uncommitted write,
\* otherwise the committed value
ReadAvailable(r, t) ==
  IF tx[r].written THEN tx[r].availableQuantity
  ELSE inventory[t].availableQuantity

\* the SERIAL id of a tier's row: rows are inserted GA first, then VIP
RowId(t) == IF t = "GA" THEN 1 ELSE IF t = "VIP" THEN 2 ELSE 3

\* (variant: no orderBy; the rows come in heap order, where an updated row
\* has moved behind the rows never updated)
SortKeyHeap(t) ==
  RowId(t) + (IF inventory[t].availableQuantity # seed[t].availableQuantity
              THEN 10 ELSE 0)

\* orderBy: { id: "asc" }
SortKey(t) == RowId(t)

RECURSIVE SortedTiers(_)
SortedTiers(S) ==
  IF S = {} THEN <<>>
  ELSE LET t == CHOOSE t \in S : \A u \in S : SortKey(t) <= SortKey(u)
       IN <<t>> \o SortedTiers(S \ {t})

\* TicketRepository.findAll: the selected fields of the committed rows,
\* ordered by id
findAll ==
  LET order == SortedTiers(DOMAIN inventory) IN
    [i \in 1..Len(order) |->
       [id |-> RowId(order[i]), tier |-> order[i],
        price |-> inventory[order[i]].price,
        totalQuantity |-> inventory[order[i]].totalQuantity,
        availableQuantity |-> inventory[order[i]].availableQuantity]]

\* the rows of a listing, by tier
RowsByTier(list) ==
  [t \in {list[i].tier : i \in DOMAIN list} |->
     LET row == list[CHOOSE i \in DOMAIN list : list[i].tier = t]
     IN [price |-> row.price, totalQuantity |-> row.totalQuantity,
         availableQuantity |-> row.availableQuantity]]

\* (variant: the SELECT carries no FOR UPDATE and never waits)
LockFreeNoWait(r, t) == TRUE

\* (variant: the lock covers the whole table instead of the tier's row)
LockFreeTable(r, t) == \A o \in DOMAIN rowLock : rowLock[o] \in {0, r}

\* SELECT ... WHERE tier = t FOR UPDATE can take the row lock of tier t for
\* attempt r: the row is unlocked, or locked by r itself
LockFree(r, t) == rowLock[t] \in {0, r}

\* (variant: only a sold-out tier is refused)
InsufficientSoldOut(currentQuantity, quantity) == currentQuantity <= 0

\* (variant: the comparison is <= instead of <)
InsufficientAtEqual(currentQuantity, quantity) == currentQuantity <= quantity

\* if (currentQuantity < quantity) return { count: 0 }
Insufficient(currentQuantity, quantity) == currentQuantity < quantity

\* (variant: the decrement is by one ticket whatever the quantity)
DecrementedByOne(value, quantity) == value - 1

\* availableQuantity: { decrement: quantity }
Decremented(value, quantity) == value - quantity

\* (variant: the row is written through the plain client, outside the
\* transaction, and is committed at once)
AutocommitAvailable(r, t, value) ==
  /\ inventory' = [inventory EXCEPT ![t].availableQuantity = value]
  /\ tx' = tx

\* a write of transaction r to the count of tier t: uncommitted until r commits
WriteAvailable(r, t, value) ==
  /\ tx' = [tx EXCEPT ![r].written = TRUE, ![r].availableQuantity = value]
  /\ inventory' = inventory

\* (variant: the record is written with quantity 1)
BookingDataSingle(userId, tier, quantity) ==
  [userId |-> userId, tier |-> tier, quantity |-> 1, status |-> "confirmed"]

\* (variant: the record is written with status "pending")
BookingDataPending(userId, tier, quantity) ==
  [userId |-> userId, tier |-> tier, quantity |-> quantity, status |-> "pending"]

\* data: { userId, tier, quantity, status: "confirmed" }
BookingData(userId, tier, quantity) ==
  [userId |-> userId, tier |-> tier, quantity |-> quantity, status |-> "confirmed"]

\* (variant: the record is created through the plain client, outside the
\* transaction, and is committed at once)
AutocommitBooking(r, row) ==
  /\ bookings' = bookings \cup {row}
  /\ tx' = tx

\* an insert of transaction r into Booking: uncommitted until r commits
WriteBooking(r, row) ==
  /\ tx' = [tx EXCEPT ![r].booking = row]
  /\ bookings' = bookings

\* the service starts on a provisioned store with no attempt running: VIP as
\* seeded, GA with its availableQuantity set to any value up to its total (the
\* stress test sets it by hand before a run)
InitService ==
  /\ \E sold \in 0..MaxStock :
       inventory = [t \in SeededTiers |->
                      [price |-> Price(t), totalQuantity |-> MaxStock,
                       availableQuantity |->
                         IF t = "GA" THEN MaxStock - sold ELSE MaxStock]]
  /\ seed = inventory
  /\ bookings = {}
  /\ bookingSeq = 0
  /\ rowLock = [t \in SeededTiers |-> 0]
  /\ pc = [r \in Reqs |-> "idle"]
  /\ payload = [r \in Reqs |-> NoPayload]
  /\ tx = [r \in Reqs |-> NoTx]
  /\ local = [r \in Reqs |-> NoLocal]
  /\ outcome = [r \in Reqs |-> Pending]
  /\ lastRead = [rows |-> RowsByTier(findAll), bookings |-> {}, uncommitted |-> {}]
  /\ response = [r \in Reqs |-> NoResponse]

\* the service as it runs: no comparison of repository variants under way,
\* the process listening
Init ==
  /\ InitService
  /\ reached = NoRuns
  /\ proc = Listening

\* TicketRepository.findByTier as transaction r runs it: the selected fields
\* of the row, or the error it throws when there is no row
findByTier(r, t) ==
  IF t \in DOMAIN inventory
  THEN [threw |-> FALSE, isNull |-> FALSE, error |-> NoError,
        ticket |-> [tier |-> t, availableQuantity |-> ReadAvailable(r, t),
                    price |-> inventory[t].price]]
  ELSE [threw |-> TRUE, isNull |-> TRUE,
        error |-> NotFoundError("Ticket tier not found"),
        ticket |-> [tier |-> t, availableQuantity |-> 0, price |-> 0]]

\* (variant: the end of the transaction leaves its row locks in place)
ReleasedNever(r) == rowLock

\* locks of attempt r released, as commit and rollback do
Released(r) == [t \in DOMAIN rowLock |-> IF rowLock[t] = r THEN 0 ELSE rowLock[t]]

\* the committed count of tier t, 0 when the tier has no row
Committed(inv, t) == IF t \in DOMAIN inv THEN inv[t].availableQuantity ELSE 0

\* (variant: the error is recorded but not thrown, and the callback goes on
\* to create the Booking row)
ThrowAndContinue(r, err) ==
  /\ local' = [local EXCEPT ![r].error = err]
  /\ pc' = [pc EXCEPT ![r] = "bookingCreate"]

\* (variant: the error is caught and the callback starts over)
ThrowAndRetry(r, err) ==
  /\ local' = [local EXCEPT ![r].error = err]
  /\ pc' = [pc EXCEPT ![r] = "findByTier"]

\* the callback of $transaction throws: the transaction is to be rolled back
Throw(r, err) ==
  /\ local' = [local EXCEPT ![r].error = err]
  /\ pc' = [pc EXCEPT ![r] = "rollback"]

\* --------------------------------------------------------------- service
\* bookTickets is called and prisma.$transaction opens a transaction
BookTickets(r, tier, quantity) ==
  /\ pc[r] = "idle"
  /\ \A o \in Reqs : o < r => pc[o] # "idle"
  /\ payload' = [payload EXCEPT ![r] =
                   [userId |-> UserOf(r), tier |-> tier, quantity |-> quantity]]
  /\ pc' = [pc EXCEPT ![r] = "findByTier"]
  /\ UNCHANGED <<response, inventory, bookings, bookingSeq, rowLock, tx, local, outcome,
                 seed, reached, proc, lastRead>>

\* (variant: findByTier reads the row with FOR UPDATE and takes its lock)
FindTicketForUpdate(r) ==
  /\ pc[r] = "findByTier"
  /\ LET res == findByTier(r, payload[r].tier) IN
       IF res.threw THEN Throw(r, res.error) /\ UNCHANGED rowLock
       ELSE /\ LockFree(r, payload[r].tier)
            /\ rowLock' = [rowLock EXCEPT ![payload[r].tier] = r]
            /\ local' = [local EXCEPT
                           ![r].ticketAvailable = res.ticket.availableQuantity,
                           ![r].totalAmount = res.ticket.price * payload[r].quantity,
                           ![r].decrementCalls = @ + 1]
            /\ pc' = [pc EXCEPT ![r] = "selectForUpdate"]
  /\ UNCHANGED <<response, inventory, bookings, bookingSeq, payload, tx, outcome,
                 seed, reached, proc, lastRead>>

\* const ticket = await repo.findByTier(tier); totalAmount = price * quantity;
\* then decrementQuantity is called and issues its first statement
FindTicket(r) ==
  /\ pc[r] = "findByTier"
  /\ LET res == findByTier(r, payload[r].tier) IN
       IF res.threw THEN Throw(r, res.error)
       ELSE IF res.isNull THEN Throw(r, NotFoundError("TICKET_NOT_FOUND"))
       ELSE /\ local' = [local EXCEPT
                           ![r].ticketAvailable = res.ticket.availableQuantity,
                           ![r].totalAmount = res.ticket.price * payload[r].quantity,
                           ![r].decrementCalls = @ + 1]
            /\ pc' = [pc EXCEPT ![r] = "selectForUpdate"]
  /\ UNCHANGED <<response, inventory, bookings, bookingSeq, rowLock, payload, tx, outcome,
                 seed, reached, proc, lastRead>>


\* (variant: the check uses the count that findByTier read before the lock)
LockedQuantityStale(r, t) == local[r].ticketAvailable

\* const currentQuantity = ticket[0].availableQuantity, of the row returned by
\* SELECT ... FOR UPDATE
LockedQuantity(r, t) == ReadAvailable(r, t)

\* decrementQuantity, first statement: SELECT "availableQuantity" ... FOR UPDATE
\* waits for the row lock, reads the committed count, and stops with count 0
\* when it is smaller than the quantity (bookTickets then throws)
SelectForUpdate(r) ==
  /\ pc[r] = "selectForUpdate"
  /\ LET t == payload[r].tier IN
       IF t \notin DOMAIN inventory
       THEN /\ Throw(r, NotFoundError("Ticket tier not found"))
            /\ UNCHANGED rowLock
       ELSE /\ LockFree(r, t)
            /\ rowLock' = [rowLock EXCEPT ![t] = r]
            /\ LET currentQuantity == LockedQuantity(r, t) IN
                 IF Insufficient(currentQuantity, payload[r].quantity)
                 THEN /\ local' = [local EXCEPT
                            ![r].selected = TRUE,
                            ![r].currentQuantity = currentQuantity,
                            ![r].before = inventory[t].availableQuantity,
                            ![r].returned = TRUE,
                            ![r].count = 0,
                            ![r].error = UnprocessableEntityError(
                                           "INSUFFICIENT_TICKETS", "quantity")]
                      /\ pc' = [pc EXCEPT ![r] = "rollback"]
                 ELSE /\ local' = [local EXCEPT
                            ![r].selected = TRUE,
                            ![r].currentQuantity = currentQuantity,
                            ![r].before = inventory[t].availableQuantity]
                      /\ pc' = [pc EXCEPT ![r] = "updateMany"]
  /\ UNCHANGED <<response, inventory, bookings, bookingSeq, payload, tx, outcome, seed, reached, proc,
                 lastRead>>

\* decrementQuantity, second statement: updateMany({where: {tier},
\* data: {availableQuantity: {decrement: quantity}}}) inside the transaction
UpdateMany(r) ==
  /\ pc[r] = "updateMany"
  /\ LET t == payload[r].tier IN
       /\ WriteAvailable(r, t, Decremented(ReadAvailable(r, t), payload[r].quantity))
       /\ local' = [local EXCEPT ![r].returned = TRUE, ![r].count = 1]
  /\ pc' = [pc EXCEPT ![r] = "simulatePayment"]
  /\ UNCHANGED <<response, bookings, bookingSeq, rowLock, payload, outcome, seed, reached, proc, lastRead>>

\* const paymentSuccess = await simulatePayment(totalAmount)
SimulatePayment(r) ==
  /\ pc[r] = "simulatePayment"
  /\ \E success \in BOOLEAN :
       IF success
       THEN /\ local' = [local EXCEPT ![r].paymentCalls = @ + 1,
                                      ![r].paymentSuccess = TRUE]
            /\ pc' = [pc EXCEPT ![r] = "bookingCreate"]
       ELSE /\ local' = [local EXCEPT ![r].paymentCalls = @ + 1,
                           ![r].error = PaymentFailedError(
                              "Payment processing failed. Please try again.",
                              "payment")]
            /\ pc' = [pc EXCEPT ![r] = "rollback"]
  /\ UNCHANGED <<response, inventory, bookings, bookingSeq, rowLock, payload, tx, outcome,
                 seed, reached, proc, lastRead>>

\* await tx.booking.create({data: {userId, tier, quantity, status: "confirmed"}})
BookingCreate(r) ==
  /\ pc[r] = "bookingCreate"
  /\ bookingSeq' = bookingSeq + 1
  /\ LET data == BookingData(payload[r].userId, payload[r].tier,
                             payload[r].quantity) IN
       WriteBooking(r, [id |-> bookingSeq + 1, userId |-> data.userId,
                        tier |-> data.tier, quantity |-> data.quantity,
                        status |-> data.status])
  /\ local' = [local EXCEPT ![r].bookingId = bookingSeq + 1]
  /\ pc' = [pc EXCEPT ![r] = "findUpdated"]
  /\ UNCHANGED <<response, inventory, rowLock, payload, outcome, seed, reached, proc, lastRead>>

\* const updatedTicket = await repo.findByTier(tier), inside the transaction
FindUpdated(r) ==
  /\ pc[r] = "findUpdated"
  /\ LET res == findByTier(r, payload[r].tier) IN
       IF res.threw THEN Throw(r, res.error)
       ELSE /\ local' = [local EXCEPT ![r].remainingQuantity =
                           res.ticket.availableQuantity]
            /\ pc' = [pc EXCEPT ![r] = "commit"]
  /\ UNCHANGED <<response, inventory, bookings, bookingSeq, rowLock, payload, tx, outcome,
                 seed, reached, proc, lastRead>>

\* (variant: one Booking is kept for each tier, the latest)
InsertedLatest(rows, row) == {b \in rows : b.tier # row.tier} \cup {row}

\* (variant: a Booking equal to an existing one up to its id is not stored)
InsertedOnce(rows, row) ==
  IF \E b \in rows : /\ b.userId = row.userId /\ b.tier = row.tier
                      /\ b.quantity = row.quantity
  THEN rows ELSE rows \cup {row}

\* the Booking table after the INSERT of booking.create has committed: the
\* table has no unique key besides the serial id
Inserted(rows, row) == rows \cup {row}

\* (variant: updateMany without its where clause writes every row)
UpdatedRowsAll(inv, t, value) ==
  [x \in DOMAIN inv |-> [inv[x] EXCEPT !.availableQuantity = value]]

\* the rows after updateMany({where: {tier}, data: {availableQuantity}}): the
\* row of the tier with its new count, every other row and column as it was
UpdatedRows(inv, t, value) == [inv EXCEPT ![t].availableQuantity = value]

\* the callback returned: $transaction commits and resolves with its value
Commit(r) ==
  /\ pc[r] = "commit"
  /\ LET t == payload[r].tier
         inv == IF tx[r].written
                THEN UpdatedRows(inventory, t, tx[r].availableQuantity)
                ELSE inventory
     IN /\ inventory' = inv
        /\ bookings' = IF tx[r].booking # NoBooking
                       THEN Inserted(bookings, tx[r].booking) ELSE bookings
        /\ local' = [local EXCEPT ![r].after = Committed(inv, t)]
        /\ outcome' = [outcome EXCEPT ![r] =
             [status |-> "fulfilled", error |-> NoError,
              value |-> [tier |-> t, bookedQuantity |-> payload[r].quantity,
                         remainingQuantity |-> local[r].remainingQuantity,
                         totalAmount |-> local[r].totalAmount]]]
  /\ rowLock' = Released(r)
  /\ tx' = [tx EXCEPT ![r] = NoTx]
  /\ pc' = [pc EXCEPT ![r] = "done"]
  /\ UNCHANGED <<response, bookingSeq, payload, seed, reached, proc, lastRead>>

\* (variant: the failure is compensated by adding the quantity back to the
\* committed count)
RollbackCompensating(r) ==
  /\ pc[r] = "rollback"
  /\ rowLock' = Released(r)
  /\ tx' = [tx EXCEPT ![r] = NoTx]
  /\ inventory' = IF tx[r].written
                  THEN [inventory EXCEPT ![payload[r].tier].availableQuantity =
                          @ + payload[r].quantity]
                  ELSE inventory
  /\ local' = [local EXCEPT ![r].after = Committed(inventory', payload[r].tier)]
  /\ outcome' = [outcome EXCEPT ![r] =
       [status |-> "rejected", error |-> local[r].error, value |-> NoValue]]
  /\ pc' = [pc EXCEPT ![r] = "done"]
  /\ UNCHANGED <<response, bookings, bookingSeq, payload, seed, reached, proc, lastRead>>

\* the callback threw: $transaction rolls back and rejects with the error
Rollback(r) ==
  /\ pc[r] = "rollback"
  /\ rowLock' = Released(r)
  /\ tx' = [tx EXCEPT ![r] = NoTx]
  /\ local' = [local EXCEPT ![r].after = Committed(inventory, payload[r].tier)]
  /\ outcome' = [outcome EXCEPT ![r] =
       [status |-> "rejected", error |-> local[r].error, value |-> NoValue]]
  /\ pc' = [pc EXCEPT ![r] = "done"]
  /\ UNCHANGED <<response, inventory, bookings, bookingSeq, payload, seed, reached, proc, lastRead>>

\* the transaction expires while SELECT ... FOR UPDATE waits for a lock that
\* another transaction holds
LockWaitTimeout(r) ==
  /\ pc[r] = "selectForUpdate"
  /\ payload[r].tier \in DOMAIN inventory
  /\ ~LockFree(r, payload[r].tier)
  /\ Throw(r, TransactionTimeoutError)
  /\ UNCHANGED <<response, inventory, bookings, bookingSeq, rowLock, payload, tx, outcome,
                 seed, reached, proc, lastRead>>

\* getAllTickets: repoFactory().findAll() on the plain client, outside any
\* transaction (lastRead also records the Booking table at that moment and the
\* attempts whose decrement was then uncommitted)
GetAllTickets ==
  /\ lastRead' = [rows |-> RowsByTier(findAll), bookings |-> bookings,
                  uncommitted |-> {r \in Reqs : pc[r] \in
                     {"simulatePayment", "bookingCreate", "findUpdated",
                      "commit", "rollback"} /\ local[r].count = 1}]
  /\ UNCHANGED <<response, inventory, bookings, bookingSeq, rowLock, pc, payload, tx,
                 local, outcome, seed, reached, proc>>

\* a statement of the transaction after the decrement fails in the store:
\* tx.booking.create is refused by the database, or the second findByTier or
\* the commit finds the transaction expired
StoreError(r) ==
  /\ pc[r] \in {"bookingCreate", "findUpdated", "commit"}
  /\ Throw(r, IF pc[r] = "bookingCreate" THEN DatabaseError
              ELSE TransactionTimeoutError)
  /\ UNCHANGED <<response, inventory, bookings, bookingSeq, rowLock, payload, tx,
                 outcome, seed, reached, proc, lastRead>>

\* ------------------------------------------------------------------ http
\* (variant: the handler has no branch for AppError and answers every error
\* with the generic 500)
globalErrorHandlerOpaque(err) ==
  [status |-> HTTP_STATUS.INTERNAL_SERVER_ERROR, success |-> FALSE,
   data |-> NoValue, tickets |-> <<>>,
   error |-> [name |-> ERROR_NAMES.INTERNAL_SERVER_ERROR,
              code |-> ERROR_CODES.INTERNAL_ERROR,
              message |-> "Internal server error", details |-> "undefined"]]

\* (variant: the last branch answers with the message of the error)
globalErrorHandlerLeaky(err) ==
  IF err.kind = "AppError"
  THEN [status |-> err.status, success |-> FALSE, data |-> NoValue, tickets |-> <<>>,
        error |-> [name |-> err.name, code |-> err.code,
                   message |-> err.message, details |-> err.details]]
  ELSE IF err.kind = "ZodError"
  THEN [status |-> HTTP_STATUS.BAD_REQUEST, success |-> FALSE, data |-> NoValue, tickets |-> <<>>,
        error |-> [name |-> ERROR_NAMES.BAD_REQUEST,
                   code |-> ERROR_CODES.BAD_REQUEST,
                   message |-> "Validation failed", details |-> err.details]]
  ELSE IF err.kind = "SyntaxError" /\ err.status = 400
  THEN [status |-> HTTP_STATUS.BAD_REQUEST, success |-> FALSE, data |-> NoValue, tickets |-> <<>>,
        error |-> [name |-> ERROR_NAMES.BAD_REQUEST,
                   code |-> ERROR_CODES.BAD_REQUEST,
                   message |-> err.message, details |-> "undefined"]]
  ELSE [status |-> HTTP_STATUS.INTERNAL_SERVER_ERROR, success |-> FALSE,
        data |-> NoValue, tickets |-> <<>>,
        error |-> [name |-> ERROR_NAMES.INTERNAL_SERVER_ERROR,
                   code |-> ERROR_CODES.INTERNAL_ERROR,
                   message |-> err.message, details |-> "undefined"]]

\* globalErrorHandler: the response for an error passed to next()
globalErrorHandler(err) ==
  IF err.kind = "AppError"
  THEN [status |-> err.status, success |-> FALSE, data |-> NoValue, tickets |-> <<>>,
        error |-> [name |-> err.name, code |-> err.code,
                   message |-> err.message, details |-> err.details]]
  ELSE IF err.kind = "ZodError"
  THEN [status |-> HTTP_STATUS.BAD_REQUEST, success |-> FALSE, data |-> NoValue, tickets |-> <<>>,
        error |-> [name |-> ERROR_NAMES.BAD_REQUEST,
                   code |-> ERROR_CODES.BAD_REQUEST,
                   message |-> "Validation failed", details |-> err.details]]
  ELSE IF err.kind = "SyntaxError" /\ err.status = 400
  THEN [status |-> HTTP_STATUS.BAD_REQUEST, success |-> FALSE, data |-> NoValue, tickets |-> <<>>,
        error |-> [name |-> ERROR_NAMES.BAD_REQUEST,
                   code |-> ERROR_CODES.BAD_REQUEST,
                   message |-> err.message, details |-> "undefined"]]
  ELSE [status |-> HTTP_STATUS.INTERNAL_SERVER_ERROR, success |-> FALSE,
        data |-> NoValue, tickets |-> <<>>,
        error |-> [name |-> ERROR_NAMES.INTERNAL_SERVER_ERROR,
                   code |-> ERROR_CODES.INTERNAL_ERROR,
                   message |-> "Internal server error", details |-> "undefined"]]

\* (variant: the catch block of the controller answers 500 itself and does
\* not call next)
bookTicketsControllerCatchAll(r) ==
  /\ pc[r] = "done"
  /\ response[r] = NoResponse
  /\ response' = [response EXCEPT ![r] =
       IF outcome[r].status = "fulfilled"
       THEN [status |-> 201, success |-> TRUE, data |-> outcome[r].value,
             tickets |-> <<>>, error |-> NoBody]
       ELSE globalErrorHandlerOpaque(outcome[r].error)]
  /\ local' = [local EXCEPT ![r].sentBy = "controller"]
  /\ UNCHANGED <<inventory, bookings, bookingSeq, rowLock, pc, payload, tx,
                 outcome, seed, reached, proc, lastRead>>

\* bookTicketsController: the promise of bookTickets settled; its value is
\* sent with status 201, its error goes to next() and globalErrorHandler
bookTicketsController(r) ==
  /\ pc[r] = "done"
  /\ response[r] = NoResponse
  /\ IF outcome[r].status = "fulfilled"
     THEN /\ response' = [response EXCEPT ![r] =
               [status |-> 201, success |-> TRUE, data |-> outcome[r].value,
                tickets |-> <<>>, error |-> NoBody]]
          /\ local' = [local EXCEPT ![r].sentBy = "controller"]
     ELSE /\ response' = [response EXCEPT ![r] =
               globalErrorHandler(outcome[r].error)]
          /\ local' = [local EXCEPT ![r].nextErr = outcome[r].error,
                                    ![r].sentBy = "errorHandler"]
  /\ UNCHANGED <<inventory, bookings, bookingSeq, rowLock, pc, payload, tx,
                 outcome, seed, reached, proc, lastRead>>

\* getAllTicketsController: GET /api/tickets; the listing is sent with the
\* default status 200, and an error of the store goes to next()
getAllTicketsController(r) ==
  /\ pc[r] = "idle"
  /\ \A o \in Reqs : o < r => pc[o] # "idle"
  /\ \E ok \in BOOLEAN :
       IF ok
       THEN /\ response' = [response EXCEPT ![r] =
                 [status |-> HTTP_STATUS.OK, success |-> TRUE, data |-> NoValue,
                  tickets |-> findAll, error |-> NoBody]]
            /\ local' = [local EXCEPT ![r].sentBy = "controller"]
            /\ lastRead' = [rows |-> RowsByTier(findAll), bookings |-> bookings,
                            uncommitted |-> {o \in Reqs : pc[o] \in
                               {"simulatePayment", "bookingCreate", "findUpdated",
                                "commit", "rollback"} /\ local[o].count = 1}]
       ELSE /\ response' = [response EXCEPT ![r] =
                 globalErrorHandler(DatabaseError)]
            /\ local' = [local EXCEPT ![r].error = DatabaseError,
                                      ![r].nextErr = DatabaseError,
                                      ![r].sentBy = "errorHandler"]
            /\ lastRead' = lastRead
  /\ pc' = [pc EXCEPT ![r] = "listed"]
  /\ UNCHANGED <<inventory, bookings, bookingSeq, rowLock, payload, tx, outcome,
                 seed, reached, proc>>

\* (variant: the schema asks for a non-negative quantity)
SchemaIssuesNonNegative(body) ==
  (IF body.userId \in {"undefined", ""} THEN <<"userId">> ELSE <<>>)
  \o (IF body.tier \notin TicketTier THEN <<"tier">> ELSE <<>>)
  \o (IF \/ body.quantity.type # "number"
         \/ body.quantity.twice % 2 # 0
         \/ body.quantity.twice < 0
      THEN <<"quantity">> ELSE <<>>)

\* bookTicketsSchema.safeParse: the paths of the issues, in the order of the
\* members of the schema; none when the body is accepted
SchemaIssues(body) ==
  (IF body.userId \in {"undefined", ""} THEN <<"userId">> ELSE <<>>)
  \o (IF body.tier \notin TicketTier THEN <<"tier">> ELSE <<>>)
  \o (IF \/ body.quantity.type # "number"
         \/ body.quantity.twice % 2 # 0
         \/ body.quantity.twice <= 0
      THEN <<"quantity">> ELSE <<>>)

Number(n) == [type |-> "number", twice |-> 2 * n]

\* the bodies that request r may carry: every well-formed booking, and a
\* well-formed body with one member (or all of them) spoiled
ValidBodies(r) ==
  {[userId |-> UserOf(r), tier |-> t, quantity |-> Number(q)] :
     t \in TicketTier, q \in Quantities}

InvalidBodies(r) ==
  LET base == [userId |-> UserOf(r), tier |-> "VIP", quantity |-> Number(1)] IN
    {[base EXCEPT !.quantity = v] :
       v \in {[type |-> "undefined", twice |-> 0], [type |-> "string", twice |-> 2],
              Number(-1), Number(0), [type |-> "number", twice |-> 1],
              [type |-> "number", twice |-> 3]}}
    \cup {[base EXCEPT !.tier = t] : t \in {"INVALID", "undefined"}}
    \cup {[base EXCEPT !.userId = u] : u \in {"", "undefined"}}
    \cup {[userId |-> "", tier |-> "INVALID", quantity |-> Number(0)]}

\* POST /api/tickets/book: validateRequest(bookTicketsSchema) passes the
\* ZodError to next(), or replaces req.body by the parsed data and lets the
\* controller call bookTickets with it
PostBook(r, body) ==
  /\ pc[r] = "idle"
  /\ \A o \in Reqs : o < r => pc[o] # "idle"
  /\ LET issues == SchemaIssues(body) IN
       IF issues # <<>>
       THEN /\ local' = [local EXCEPT ![r].body = body,
                                      ![r].error = ZodError(issues[1]),
                                      ![r].nextErr = ZodError(issues[1]),
                                      ![r].sentBy = "errorHandler"]
            /\ response' = [response EXCEPT ![r] =
                             globalErrorHandler(ZodError(issues[1]))]
            /\ pc' = [pc EXCEPT ![r] = "closed"]
            /\ payload' = payload
       ELSE /\ local' = [local EXCEPT ![r].body = body]
            /\ payload' = [payload EXCEPT ![r] =
                             [userId |-> body.userId, tier |-> body.tier,
                              quantity |-> body.quantity.twice \div 2]]
            /\ pc' = [pc EXCEPT ![r] = "findByTier"]
            /\ response' = response
  /\ UNCHANGED <<inventory, bookings, bookingSeq, rowLock, tx, outcome, seed, reached, proc,
                 lastRead>>

\* details of a thrown AppError: null, or entries of which the first has
\* this path
ErrorDetails == {"", "quantity"}

\* the errors a middleware or route may pass to next(): every AppError class
\* (with its default message where the source gives no other), and errors
\* that are no AppError
ThrownErrors ==
  {UnprocessableEntityError("INSUFFICIENT_TICKETS", d) : d \in ErrorDetails}
  \cup {BadRequestError("Bad Request", "quantity"), ConflictError("Conflict", ""),
        PaymentFailedError("Payment Failed", "payment"),
        NotFoundError("Cannot find /api/x on this server"),
        UnauthorizedError("Unauthorized"), ForbiddenError("Forbidden"),
        InternalServerError("Internal Server Error")}
  \cup {DatabaseError, TransactionTimeoutError, ZodError("quantity"),
        BodyParseError, ScriptSyntaxError, OperationalError}

\* request r is not a booking: a middleware passes err to next() (the 404
\* handler does so for every unknown route) and globalErrorHandler answers
ErrorRoute(r, err) ==
  /\ pc[r] = "idle"
  /\ \A o \in Reqs : o < r => pc[o] # "idle"
  /\ local' = [local EXCEPT ![r].error = err, ![r].nextErr = err,
                            ![r].sentBy = "errorHandler"]
  /\ response' = [response EXCEPT ![r] = globalErrorHandler(err)]
  /\ pc' = [pc EXCEPT ![r] = "closed"]
  /\ UNCHANGED <<inventory, bookings, bookingSeq, rowLock, payload, tx, outcome,
                 seed, reached, proc, lastRead>>

Next ==
  \/ \E r \in Reqs, t \in TicketTier, q \in Quantities : BookTickets(r, t, q)
  \/ \E r \in Reqs : FindTicket(r)
  \/ \E r \in Reqs : SelectForUpdate(r)
  \/ \E r \in Reqs : UpdateMany(r)
  \/ \E r \in Reqs : SimulatePayment(r)
  \/ \E r \in Reqs : BookingCreate(r)
  \/ \E r \in Reqs : FindUpdated(r)
  \/ \E r \in Reqs : Commit(r)
  \/ \E r \in Reqs : Rollback(r)
  \/ \E r \in Reqs : LockWaitTimeout(r)

Spec == Init /\ [][Next]_vars

\* the client sends the request of an earlier attempt again, while that
\* attempt runs or after it was answered: bookTickets is called with the same
\* userId, tier and quantity
Resubmit(r) ==
  /\ pc[r] = "idle"
  /\ \A o \in Reqs : o < r => pc[o] # "idle"
  /\ \E o \in Reqs :
       /\ o < r
       /\ payload' = [payload EXCEPT ![r] = payload[o]]
  /\ pc' = [pc EXCEPT ![r] = "findByTier"]
  /\ UNCHANGED <<response, inventory, bookings, bookingSeq, rowLock, tx, local, outcome,
                 seed, reached, proc, lastRead>>

\* bookings together with unlocked reads, from the provisioned full stock
InitReads == Init /\ \A t \in SeededTiers : inventory[t].availableQuantity = MaxStock

NextReads == Next \/ GetAllTickets

SpecReads == InitReads /\ [][NextReads]_vars

\* bookings some of which repeat an earlier request, from the provisioned
\* full stock
NextResubmit == Next \/ \E r \in Reqs : Resubmit(r)

SpecResubmit == InitReads /\ [][NextResubmit]_vars

\* bookings whose statements after the decrement may fail in the store, from
\* the provisioned full stock
NextFaults == Next \/ \E r \in Reqs : StoreError(r)

SpecFaults == InitReads /\ [][NextFaults]_vars

\* the steps of attempt r once it has started
Step(r) ==
  \/ FindTicket(r) \/ SelectForUpdate(r) \/ UpdateMany(r) \/ SimulatePayment(r)
  \/ BookingCreate(r) \/ FindUpdated(r) \/ Commit(r) \/ Rollback(r)
  \/ LockWaitTimeout(r)

\* the event loop runs every continuation that is ready, and the store either
\* grants a waiting lock request or lets its transaction expire
Fairness == \A r \in Reqs : WF_vars(Step(r))

SpecLive == InitReads /\ [][Next]_vars /\ Fairness

\* HTTP requests: bookings that pass validateRequest and are answered by
\* their controller, listings, and requests that end in an error passed to
\* next()
NextHttp ==
  \/ \E r \in Reqs : \E body \in ValidBodies(r) \cup InvalidBodies(r) :
       PostBook(r, body)
  \/ \E r \in Reqs : Step(r)
  \/ \E r \in Reqs : bookTicketsController(r)
  \/ \E r \in Reqs : getAllTicketsController(r)
  \/ \E r \in Reqs : \E err \in ThrownErrors : ErrorRoute(r, err)

\* the store with VIP as provisioned and GA sold out
InitHttp == Init /\ inventory["GA"].availableQuantity = 0

SpecHttp == InitHttp /\ [][NextHttp]_vars

\* ================================================================ claims
\* the attempts made against tier t, and those that reported success
Attempts(t) == {r \in Reqs : pc[r] # "idle" /\ payload[r].tier = t}
Succeeded(t) == {r \in Attempts(t) : outcome[r].status = "fulfilled"}
Settled(t) == \A r \in Attempts(t) : pc[r] = "done"

RECURSIVE SumQuantity(_)
SumQuantity(S) ==
  IF S = {} THEN 0
  ELSE LET x == CHOOSE x \in S : TRUE IN x.quantity + SumQuantity(S \ {x})

\* the tickets of tier t sold according to a set of Booking rows
Booked(rows, t) == SumQuantity({b \in rows : b.tier = t /\ b.status = "confirmed"})

\* the tickets of tier t that the successful attempts asked for
Granted(t) == SumQuantity({[id |-> r, quantity |-> payload[r].quantity] :
                             r \in Succeeded(t)})

Min(a, b) == IF a < b THEN a ELSE b

\* C1 - no oversell: when every attempt against a tier seeded with N tickets
\* asks for q, at most N \div q attempts report success, the count is never
\* negative, and once the attempts are settled it is N - q * successes
C1_NoOversell ==
  [](\A t \in DOMAIN inventory : \A q \in Quantities :
       (\A r \in Attempts(t) : payload[r].quantity = q) =>
         /\ Cardinality(Succeeded(t)) <= seed[t].availableQuantity \div q
         /\ inventory[t].availableQuantity >= 0
         /\ Settled(t) =>
              inventory[t].availableQuantity =
                seed[t].availableQuantity - q * Cardinality(Succeeded(t)))

\* two attempts for the same quantity raced for stock that serves only one
C1_Witness ==
  \E t \in DOMAIN inventory : \E q \in Quantities :
    /\ Cardinality(Attempts(t)) >= 2
    /\ \A r \in Attempts(t) : payload[r].quantity = q
    /\ Settled(t)
    /\ Cardinality(Succeeded(t)) = 1
    /\ seed[t].availableQuantity \div q = 1
    /\ \E r \in Attempts(t) : outcome[r].error.message = "INSUFFICIENT_TICKETS"

\* C2 - every committed row keeps 0 <= availableQuantity <= totalQuantity
C2_AvailableInRange ==
  \A t \in DOMAIN inventory :
    /\ 0 <= inventory[t].availableQuantity
    /\ inventory[t].availableQuantity <= inventory[t].totalQuantity

\* a tier was sold out by bookings while a further attempt was refused
C2_Witness ==
  \E t \in DOMAIN inventory :
    /\ inventory[t].availableQuantity = 0
    /\ seed[t].availableQuantity = seed[t].totalQuantity
    /\ \E r \in Attempts(t) : outcome[r].error.message = "INSUFFICIENT_TICKETS"

SeededFull == \A t \in DOMAIN seed : seed[t].availableQuantity = seed[t].totalQuantity

\* C3 - from a full seed without bookings, for every tier the confirmed
\* bookings sum to at most totalQuantity and availableQuantity is
\* totalQuantity minus that sum
C3_BookingsMatchInventory ==
  SeededFull =>
    \A t \in DOMAIN inventory :
      /\ Booked(bookings, t) <= inventory[t].totalQuantity
      /\ inventory[t].availableQuantity =
           inventory[t].totalQuantity - Booked(bookings, t)

\* from a full seed, two committed bookings of one tier sold it out
C3_Witness ==
  /\ SeededFull
  /\ \E b1, b2 \in bookings :
       /\ b1.id # b2.id
       /\ b1.tier = b2.tier
       /\ Booked(bookings, b1.tier) = inventory[b1.tier].totalQuantity

PaymentFailedMessage == "Payment processing failed. Please try again."

\* C4 - atomic compensation: an attempt whose decrement applied and whose
\* payment failed is rejected with PaymentFailedError and its message, leaves
\* the committed count of its tier as it was when the attempt locked the row,
\* and leaves no Booking row
C4_AtomicCompensation ==
  \A r \in Reqs :
    (pc[r] = "done" /\ local[r].count = 1 /\ local[r].paymentCalls = 1
       /\ ~local[r].paymentSuccess) =>
      /\ outcome[r].status = "rejected"
      /\ outcome[r].error.name = "PaymentFailedError"
      /\ outcome[r].error.message = PaymentFailedMessage
      /\ local[r].after = local[r].before
      /\ ~\E b \in bookings : b.id = local[r].bookingId

\* a payment failure was compensated while another attempt waited for the
\* same tier
C4_Witness ==
  \E r, o \in Reqs :
    /\ r # o
    /\ pc[r] = "done" /\ local[r].count = 1 /\ ~local[r].paymentSuccess
    /\ outcome[r].error.message = PaymentFailedMessage
    /\ payload[o].tier = payload[r].tier
    /\ pc[o] = "selectForUpdate"

\* C5 - all or nothing: a settled invocation has persisted either nothing or
\* the pair (decrement by quantity, one confirmed Booking of that quantity);
\* the committed tables, and every unlocked read, show each decrement together
\* with its Booking row and never an uncommitted decrement
C5_AllOrNothing ==
  /\ \A r \in Reqs : pc[r] = "done" =>
       \/ /\ outcome[r].status = "rejected"
          /\ ~\E b \in bookings : b.id = local[r].bookingId
          /\ local[r].selected => local[r].after = local[r].before
       \/ /\ outcome[r].status = "fulfilled"
          /\ local[r].after = local[r].before - payload[r].quantity
          /\ Cardinality({b \in bookings : b.id = local[r].bookingId}) = 1
          /\ \A b \in bookings : b.id = local[r].bookingId =>
               /\ b.tier = payload[r].tier
               /\ b.quantity = payload[r].quantity
               /\ b.status = "confirmed"
  /\ \A t \in DOMAIN inventory :
       /\ inventory[t].availableQuantity =
            seed[t].availableQuantity - Booked(bookings, t)
       /\ lastRead.rows[t].availableQuantity =
            seed[t].availableQuantity - Booked(lastRead.bookings, t)

\* the latest unlocked read ran while an attempt held an uncommitted decrement,
\* after another booking had committed, and that attempt then rolled back
C5_Witness ==
  \E r \in lastRead.uncommitted :
    /\ pc[r] = "done"
    /\ outcome[r].status = "rejected"
    /\ lastRead.bookings # {}

\* no payment of an attempt against tier t failed, and none timed out
AllPaid(t) ==
  \A r \in Attempts(t) :
    /\ local[r].paymentCalls > 0 => local[r].paymentSuccess
    /\ local[r].error # TransactionTimeoutError

InCritical(o) ==
  \/ pc[o] \in {"updateMany", "simulatePayment", "bookingCreate", "findUpdated",
                "commit"}
  \/ pc[o] = "rollback" /\ local[o].selected

InsufficientTickets == UnprocessableEntityError("INSUFFICIENT_TICKETS", "quantity")

\* C8 - an attempt that read under the lock a count smaller than its quantity
\* is rejected with UnprocessableEntityError("INSUFFICIENT_TICKETS") and detail
\* path "quantity", never invokes the payment, creates no Booking row and
\* leaves the count unchanged
C8_InsufficientStock ==
  \A r \in Reqs :
    (local[r].selected /\ local[r].currentQuantity < payload[r].quantity) =>
      /\ pc[r] \in {"rollback", "done"}
      /\ local[r].error = InsufficientTickets
      /\ local[r].error.status = 422
      /\ local[r].error.details = "quantity"
      /\ local[r].paymentCalls = 0
      /\ local[r].bookingId = 0
      /\ ~tx[r].written
      /\ pc[r] = "done" =>
           /\ outcome[r].status = "rejected"
           /\ outcome[r].error = InsufficientTickets
           /\ local[r].after = local[r].before
           /\ local[r].after = local[r].currentQuantity

\* an attempt for more than the remaining, non-zero stock was refused
C8_Witness ==
  \E r \in Reqs :
    /\ pc[r] = "done"
    /\ local[r].selected
    /\ local[r].currentQuantity > 0
    /\ local[r].currentQuantity < payload[r].quantity

\* C9 - decrementQuantity on a tier with count a returns count 0 and leaves a
\* when a < quantity, and otherwise returns count 1 and leaves a - quantity
C9_DecrementQuantity ==
  \A r \in Reqs :
    (local[r].returned /\ pc[r] # "done") =>
      LET a == local[r].currentQuantity
          q == payload[r].quantity
      IN /\ a = local[r].before
         /\ IF a < q
            THEN local[r].count = 0 /\ ReadAvailable(r, payload[r].tier) = a
            ELSE local[r].count = 1 /\ ReadAvailable(r, payload[r].tier) = a - q

\* decrementQuantity took the whole remaining stock, more than one ticket
C9_Witness ==
  \E r \in Reqs :
    /\ local[r].returned /\ pc[r] = "simulatePayment"
    /\ local[r].currentQuantity = payload[r].quantity
    /\ payload[r].quantity > 1
    /\ local[r].count = 1
    /\ ReadAvailable(r, payload[r].tier) = 0

\* C10 - a request for a tier without a row is rejected with NotFound (404)
\* and the message "TICKET_NOT_FOUND", having changed nothing: no lock, no
\* write, no payment, no Booking row
C10_UnknownTier ==
  \A r \in Reqs :
    (pc[r] = "done" /\ payload[r].tier \notin DOMAIN inventory) =>
      /\ outcome[r].status = "rejected"
      /\ outcome[r].error.status = 404
      /\ outcome[r].error.code = "NOT_FOUND"
      /\ outcome[r].error.message = "TICKET_NOT_FOUND"
      /\ ~local[r].selected
      /\ local[r].paymentCalls = 0
      /\ local[r].bookingId = 0

BookingsOf(r) == {b \in bookings : b.id = local[r].bookingId}

\* C12 - every invocation that returned success created exactly one Booking
\* row, with status "confirmed", the userId and tier of its request and a
\* positive quantity equal to its decrement of availableQuantity; an
\* invocation that failed created none, so there are as many Booking rows as
\* successful invocations
C12_OneBookingPerSuccess ==
  /\ \A r \in Reqs : pc[r] = "done" =>
       IF outcome[r].status = "fulfilled"
       THEN /\ Cardinality(BookingsOf(r)) = 1
            /\ \A o \in Reqs \ {r} : local[o].bookingId # local[r].bookingId
            /\ \A b \in BookingsOf(r) :
                 /\ b.status = "confirmed"
                 /\ b.userId = payload[r].userId
                 /\ b.tier = payload[r].tier
                 /\ b.quantity > 0
                 /\ b.quantity = local[r].before - local[r].after
       ELSE /\ BookingsOf(r) = {}
            /\ local[r].bookingId = 0
  /\ Cardinality(bookings) =
       Cardinality({r \in Reqs : outcome[r].status = "fulfilled"})

\* two requesters booked the same tier, and each has its own Booking row
C12_Witness ==
  \E r, o \in Reqs : \E b, c \in bookings :
    /\ r # o
    /\ outcome[r].status = "fulfilled" /\ outcome[o].status = "fulfilled"
    /\ b.id = local[r].bookingId /\ c.id = local[o].bookingId
    /\ b.userId # c.userId
    /\ b.tier = c.tier

\* C13 - an attempt whose decrement applied and whose payment succeeded, and
\* which then failed with an error of the store (creating the Booking row, the
\* re-read or the commit failed, or the transaction had expired) is rejected
\* with that very error, leaves the committed count of its tier as it was when
\* it locked the row, leaves no Booking row and holds no lock
C13_StoreErrorAborts ==
  \A r \in Reqs :
    (pc[r] = "done" /\ local[r].count = 1 /\ local[r].paymentSuccess
       /\ outcome[r].status # "fulfilled") =>
      /\ outcome[r].status = "rejected"
      /\ outcome[r].error \in {DatabaseError, TransactionTimeoutError}
      /\ outcome[r].error = local[r].error
      /\ local[r].after = local[r].before
      /\ inventory[payload[r].tier].availableQuantity + Granted(payload[r].tier)
           = seed[payload[r].tier].availableQuantity
      /\ BookingsOf(r) = {}
      /\ tx[r] = NoTx
      /\ \A t \in DOMAIN rowLock : rowLock[t] # r

\* the Booking row had been created inside the transaction when the
\* transaction expired, and the attempt was rolled back; another attempt was
\* rolled back because its Booking row could not be created
C13_Witness ==
  \E r, o \in Reqs :
    /\ pc[r] = "done"
    /\ local[r].count = 1 /\ local[r].paymentSuccess
    /\ local[r].bookingId # 0
    /\ outcome[r].status = "rejected"
    /\ outcome[r].error = TransactionTimeoutError
    /\ pc[o] = "done"
    /\ local[o].paymentSuccess
    /\ outcome[o].error = DatabaseError

\* attempt r applied a decrement that was not rolled back
Applied(r) == local[r].count = 1 /\ outcome[r].status # "rejected"

\* C14 - per tier the attempts serialize on the row lock: at most one attempt
\* is between its lock acquisition and its commit or rollback, that attempt is
\* the holder of the row lock, and no two attempts on a tier both found the
\* stock sufficient and applied a decrement computed from the same count
C14_RowLockSerializes ==
  /\ \A r, o \in Reqs :
       (r # o /\ InCritical(r) /\ InCritical(o)) =>
         payload[r].tier # payload[o].tier
  /\ \A r \in Reqs : InCritical(r) => rowLock[payload[r].tier] = r
  /\ \A r, o \in Reqs :
       (r # o /\ payload[r].tier = payload[o].tier /\ Applied(r) /\ Applied(o)) =>
         local[r].currentQuantity # local[o].currentQuantity

\* an attempt holds the row lock with its decrement applied while another
\* attempt on the same tier, for which the committed count would suffice,
\* waits for the lock
C14_Witness ==
  \E r, o \in Reqs :
    /\ r # o
    /\ payload[r].tier = payload[o].tier
    /\ pc[r] = "simulatePayment" /\ local[r].count = 1
    /\ pc[o] = "selectForUpdate"
    /\ inventory[payload[o].tier].availableQuantity >= payload[o].quantity
    /\ tx[r].availableQuantity < payload[o].quantity

\* the order of the statements of bookTickets: from each position, the
\* positions that may follow
StepEdges ==
  {<<"idle", "findByTier">>,
   <<"findByTier", "selectForUpdate">>, <<"findByTier", "rollback">>,
   <<"selectForUpdate", "updateMany">>, <<"selectForUpdate", "rollback">>,
   <<"updateMany", "simulatePayment">>,
   <<"simulatePayment", "bookingCreate">>, <<"simulatePayment", "rollback">>,
   <<"bookingCreate", "findUpdated">>,
   <<"findUpdated", "commit">>, <<"findUpdated", "rollback">>,
   <<"commit", "done">>, <<"rollback", "done">>}

HoldsNoLock(r) == \A t \in DOMAIN rowLock : rowLock[t] # r

\* C16 - every started attempt eventually ends, committed or rolled back, with
\* its row lock released (an ended attempt stays ended, so from some moment on
\* every attempt that ever started has ended); an attempt whose lock wait timed out is rejected
\* with the store's timeout error, which globalErrorHandler answers with a
\* 5xx status; and while an attempt is unfinished some attempt can take a step
C16_Terminates ==
  /\ <>[](\A r \in Reqs :
           pc[r] # "idle" =>
             /\ pc[r] = "done"
             /\ outcome[r].status \in {"fulfilled", "rejected"}
             /\ HoldsNoLock(r))
  /\ [](\A r \in Reqs : pc[r] = "done" => HoldsNoLock(r))
  /\ [](\A r \in Reqs :
         (pc[r] = "done" /\ ~local[r].selected /\ local[r].decrementCalls = 1
            /\ payload[r].tier \in DOMAIN inventory) =>
           /\ outcome[r].status = "rejected"
           /\ outcome[r].error = TransactionTimeoutError
           /\ globalErrorHandler(outcome[r].error).status >= 500
           /\ globalErrorHandler(outcome[r].error).status < 600)
  /\ []((\E r \in Reqs : pc[r] \notin {"idle", "done"}) =>
         \E r \in Reqs : ENABLED Step(r))

\* an attempt gave up waiting for the row lock of a tier and ended with the
\* timeout error, the holder of the lock ended too, and no lock is held
C16_Witness ==
  \E r, o \in Reqs :
    /\ r # o
    /\ pc[r] = "done" /\ outcome[r].error = TransactionTimeoutError
    /\ pc[o] = "done" /\ local[o].selected
    /\ payload[o].tier = payload[r].tier
    /\ \A t \in DOMAIN rowLock : rowLock[t] = 0

\* C17 - no retry: one invocation calls decrementQuantity at most once and
\* runs the payment at most once; settled, it made no call for an unknown
\* tier, one decrement call and no payment after insufficient stock or a lock
\* timeout, and one call of each after a payment failure or a success
C17_NoRetry ==
  \A r \in Reqs :
    /\ local[r].decrementCalls <= 1
    /\ local[r].paymentCalls <= 1
    /\ local[r].paymentCalls <= local[r].decrementCalls
    /\ pc[r] = "done" =>
         LET calls == <<local[r].decrementCalls, local[r].paymentCalls>> IN
           IF outcome[r].status = "fulfilled" THEN calls = <<1, 1>>
           ELSE IF outcome[r].error.name = "PaymentFailedError" THEN calls = <<1, 1>>
           ELSE IF outcome[r].error = TransactionTimeoutError THEN calls = <<1, 0>>
           ELSE IF outcome[r].error.message = "INSUFFICIENT_TICKETS"
                THEN calls = <<1, 0>>
           ELSE calls = <<0, 0>>

\* one attempt ended by a payment failure and another by a lock timeout while
\* stock remained that would have served either again
C17_Witness ==
  \E r, o \in Reqs :
    /\ pc[r] = "done" /\ outcome[r].error.name = "PaymentFailedError"
    /\ pc[o] = "done" /\ outcome[o].error = TransactionTimeoutError
    /\ payload[r].tier = payload[o].tier
    /\ inventory[payload[r].tier].availableQuantity >= payload[r].quantity
    /\ inventory[payload[o].tier].availableQuantity >= payload[o].quantity

\* a step that is a call of findAll (getAllTickets) or of findByTier (the
\* first and the last read of bookTickets)
ReadStep ==
  \/ lastRead' # lastRead
  \/ \E r \in Reqs : pc[r] \in {"findByTier", "findUpdated"} /\ pc'[r] # pc[r]

\* C18 - findAll and findByTier never mutate state: a read step leaves the
\* inventory rows, the Booking rows, the sequence, the locks and the
\* uncommitted writes as they are, so that with reads interleaved at any
\* point the tables are what the bookings alone produce: each count is the
\* seed minus the successful quantities, with one Booking row per success
C18_ReadsDoNotMutate ==
  /\ [][ReadStep => UNCHANGED <<inventory, bookings, bookingSeq, rowLock, tx>>]_vars
  /\ [](\A t \in DOMAIN inventory :
          /\ inventory[t].availableQuantity =
               seed[t].availableQuantity - Granted(t)
          /\ Booked(bookings, t) = Granted(t))
  /\ [](Cardinality(bookings) =
          Cardinality({r \in Reqs : outcome[r].status = "fulfilled"}))

\* an unlocked read ran between two bookings of the same tier
C18_Witness ==
  \E t \in DOMAIN inventory :
    /\ lastRead.rows[t].availableQuantity < seed[t].availableQuantity
    /\ inventory[t].availableQuantity < lastRead.rows[t].availableQuantity
    /\ Cardinality(Succeeded(t)) = 2

\* C19 - a booking whose payment failed is answered with status 422, error
\* code "PAYMENT_FAILED" and the message "Payment processing failed. Please
\* try again."
C19_PaymentFailedResponse ==
  \A r \in Reqs :
    (response[r] # NoResponse /\ local[r].paymentCalls = 1
       /\ ~local[r].paymentSuccess) =>
      /\ response[r].status = 422
      /\ response[r].error.code = "PAYMENT_FAILED"
      /\ response[r].error.message = PaymentFailedMessage

Unexpected(err) ==
  /\ err # NoError
  /\ err.kind \notin {"AppError", "ZodError"}
  /\ ~(err.kind = "SyntaxError" /\ err.status = 400)

\* the one response to every unexpected error
OpaqueResponse ==
  [status |-> 500, success |-> FALSE, data |-> NoValue, tickets |-> <<>>,
   error |-> [name |-> "InternalServerError", code |-> "INTERNAL_ERROR",
              message |-> "Internal server error", details |-> "undefined"]]

\* C21 - every error that is no AppError, no ZodError and no body-parser
\* syntax error is answered with status 500, code "INTERNAL_ERROR" and the
\* message "Internal server error"; the response is the same whatever the
\* error contains, so any two such errors get equal responses
C21_OpaqueInternalError ==
  /\ \A r \in Reqs :
       (response[r] # NoResponse /\ Unexpected(local[r].error)) =>
         /\ response[r].status = 500
         /\ response[r].error.code = "INTERNAL_ERROR"
         /\ response[r].error.message = "Internal server error"
         /\ response[r] = OpaqueResponse
  /\ \A r, o \in Reqs :
       (/\ response[r] # NoResponse /\ Unexpected(local[r].error)
        /\ response[o] # NoResponse /\ Unexpected(local[o].error)) =>
         response[r] = response[o]

\* a request that ended in a store error and a request that ended in an
\* error with a status, code and details of its own were both answered
C21_Witness ==
  \E r, o \in Reqs :
    /\ pc[r] = "closed" /\ local[r].error = DatabaseError
    /\ response[r] = OpaqueResponse
    /\ pc[o] = "closed" /\ local[o].error = OperationalError
    /\ response[o] = OpaqueResponse

\* ------------------------------------------------------------------- C22
\* the body fails validation: quantity missing, not an integer or not
\* positive, tier outside VIP, FRONT_ROW and GA, or userId missing or empty
FailsValidation(body) ==
  \/ body.quantity.type = "undefined"
  \/ body.quantity.type # "number"
  \/ body.quantity.twice % 2 # 0
  \/ body.quantity.twice <= 0
  \/ body.tier \notin {"VIP", "FRONT_ROW", "GA"}
  \/ body.userId \in {"undefined", ""}

\* the request was answered 400 "Validation failed" and bookTickets never
\* ran for it
RejectedUnserved(r) ==
  /\ response[r].status = 400
  /\ response[r].success = FALSE
  /\ response[r].error.message = "Validation failed"
  /\ payload[r] = NoPayload
  /\ outcome[r] = Pending
  /\ pc[r] = "closed"
  /\ local[r].decrementCalls = 0
  /\ local[r].paymentCalls = 0
  /\ tx[r] = NoTx
  /\ \A t \in DOMAIN rowLock : rowLock[t] # r

Answered(r) == local[r].sentBy # ""

\* the controller wrote the success response itself and called next() with
\* nothing
WroteSuccess(r, status) ==
  /\ local[r].sentBy = "controller"
  /\ local[r].nextErr = NoError
  /\ response[r].status = status
  /\ response[r].success = TRUE
  /\ response[r].error = NoBody

\* the controller passed the thrown error, as it was, to next() and wrote
\* nothing: the response is the one of the error handler for that error
Forwarded(r, err) ==
  /\ err # NoError
  /\ local[r].nextErr = err
  /\ local[r].sentBy = "errorHandler"
  /\ response[r] = globalErrorHandler(err)

Stepping == {r \in Reqs : pc'[r] # pc[r]}

\* C24: no operation changes a tier's totalQuantity or price, or adds or
\* removes an inventory row; a step of bookTickets changes at most the
\* availableQuantity of the tier it requested and adds at most one Booking,
\* and no attempt has more than one Booking
C24_Frame ==
  /\ [][/\ DOMAIN inventory' = DOMAIN inventory
        /\ \A t \in DOMAIN inventory :
             /\ inventory'[t].price = inventory[t].price
             /\ inventory'[t].totalQuantity = inventory[t].totalQuantity
             /\ inventory'[t].availableQuantity # inventory[t].availableQuantity
                  => \E r \in Stepping : payload[r].tier = t
        /\ bookings \subseteq bookings'
        /\ Cardinality(bookings' \ bookings) <= 1
        /\ \A b \in bookings' \ bookings :
             \E r \in Stepping : b.id = local[r].bookingId /\ b.tier = payload[r].tier
        /\ Cardinality(Stepping) <= 1]_vars
  /\ [](\A r \in Reqs : Cardinality(BookingsOf(r)) <= 1)

\* a booking of VIP has committed: the VIP count went down, the GA row is as
\* seeded, and one Booking was added
C24_Witness ==
  /\ inventory["VIP"].availableQuantity < seed["VIP"].availableQuantity
  /\ inventory["GA"] = seed["GA"]
  /\ inventory["VIP"].totalQuantity = seed["VIP"].totalQuantity
  /\ Cardinality(bookings) = 1

\* ------------------------------------------------------------------- C25
\* C25: Booking records are append-only: every committed Booking stays in the
\* table as it was written, so the set of committed Bookings only grows
C25_BookingsAppendOnly == [][bookings \subseteq bookings']_vars

\* a second Booking of a tier was committed and the first is still there
C25_Witness ==
  \E b, c \in bookings : b.id < c.id /\ b.tier = c.tier

\* ------------------------------------------------------------------- C26
\* attempt r repeats the request of the earlier attempt o
Repeats(r, o) == o < r /\ pc[r] # "idle" /\ payload[r] = payload[o]

\* the Bookings stored for a request
BookingsFor(p) ==
  {b \in bookings : /\ b.userId = p.userId /\ b.tier = p.tier
                    /\ b.quantity = p.quantity}

\* the attempts with the request of attempt r that have succeeded
SucceededLike(r) ==
  {o \in Reqs : /\ payload[o] = payload[r]
                /\ pc[o] = "done" /\ outcome[o].status = "fulfilled"}

\* attempt r ran bookTickets by itself: its own locked decrement, its own
\* payment, its own Booking
RanItself(r) ==
  /\ local[r].decrementCalls = 1
  /\ local[r].count = 1
  /\ local[r].paymentCalls = 1
  /\ Cardinality(BookingsOf(r)) = 1

\* C26: requests are not deduplicated. A request sent again, after a payment
\* failure or while the first is running, is a new attempt that runs
\* bookTickets by itself; two identical requests that both succeed leave two
\* Booking records and two decrements
C26_NoDeduplication ==
  \A r \in Reqs :
    (pc[r] = "done" /\ outcome[r].status = "fulfilled") =>
      /\ RanItself(r)
      /\ \A o \in Reqs :
           (Repeats(r, o) \/ Repeats(o, r)) =>
             /\ local[r].bookingId # local[o].bookingId
             /\ (pc[o] = "done" /\ outcome[o].status = "rejected") =>
                  BookingsOf(o) = {}
      /\ Cardinality(BookingsFor(payload[r])) = Cardinality(SucceededLike(r))
      /\ seed[payload[r].tier].availableQuantity
           - inventory[payload[r].tier].availableQuantity
           >= Cardinality(SucceededLike(r)) * payload[r].quantity

\* the same request succeeded twice: two Bookings, two decrements
C26_Witness ==
  \E r, o \in Reqs :
    /\ Repeats(r, o)
    /\ outcome[r].status = "fulfilled" /\ outcome[o].status = "fulfilled"
    /\ Cardinality(BookingsFor(payload[r])) = 2
    /\ inventory[payload[r].tier].availableQuantity
         = seed[payload[r].tier].availableQuantity - 2 * payload[r].quantity

\* a request whose payment failed was sent again and succeeded
C26_WitnessRetry ==
  \E r, o \in Reqs :
    /\ Repeats(r, o)
    /\ outcome[o].status = "rejected" /\ outcome[o].error.name = "PaymentFailedError"
    /\ outcome[r].status = "fulfilled"
    /\ Cardinality(BookingsFor(payload[r])) = 1

\* ------------------------------------------------------------------- C27
\* the tiers in the order in which their rows were inserted
InsertionOrder == <<"GA", "VIP">>

\* the listing has every tier once, in insertion order, with the columns of
\* the rows inv
ListsAll(list, inv) ==
  /\ Len(list) = Cardinality(DOMAIN inv)
  /\ [i \in 1..Len(list) |-> list[i].tier] = InsertionOrder
  /\ \A i, j \in 1..Len(list) : i < j => list[i].id < list[j].id
  /\ \A i \in 1..Len(list) :
       /\ list[i].availableQuantity = inv[list[i].tier].availableQuantity
       /\ list[i].totalQuantity = inv[list[i].tier].totalQuantity
       /\ list[i].price = inv[list[i].tier].price

\* C27: findAll returns every tier exactly once, in tier-insertion order,
\* each with its committed availableQuantity at the time of the read; the
\* order and the set of tiers stay the same as bookings are made
C27_FindAllComplete ==
  /\ ListsAll(findAll, inventory)
  /\ DOMAIN lastRead.rows = DOMAIN inventory
  /\ \A t \in DOMAIN inventory :
       /\ lastRead.rows[t].price = inventory[t].price
       /\ lastRead.rows[t].totalQuantity = inventory[t].totalQuantity
       /\ lastRead.rows[t].availableQuantity >= inventory[t].availableQuantity
       /\ lastRead.rows[t].availableQuantity <= seed[t].availableQuantity

\* a booking of the first tier has committed, and a listing read after it,
\* while a decrement of the second tier was uncommitted, showed the new count
\* of the first and the old count of the second
C27_Witness ==
  /\ findAll[1].tier = "GA"
  /\ findAll[1].availableQuantity < seed["GA"].availableQuantity
  /\ lastRead.rows["GA"].availableQuantity = findAll[1].availableQuantity
  /\ lastRead.rows["VIP"].availableQuantity = seed["VIP"].availableQuantity
  /\ lastRead.uncommitted # {}

\* ------------------------------------------------------------------- C28
\* C28: the remainingQuantity reported by a successful bookTickets is the
\* availableQuantity of the tier right after its own decrement, and it is the
\* committed availableQuantity of the tier at the moment the booking commits,
\* whatever other bookings run at the same time
C28_RemainingQuantityExact ==
  /\ [][\A r \in Reqs :
          /\ (pc[r] = "updateMany" /\ pc'[r] = "simulatePayment") =>
               tx'[r].availableQuantity
                 = local[r].currentQuantity - payload[r].quantity
          /\ (pc[r] = "findUpdated" /\ pc'[r] = "commit") =>
               /\ local'[r].remainingQuantity = tx[r].availableQuantity
               /\ local'[r].remainingQuantity
                    = local[r].currentQuantity - payload[r].quantity
          /\ (pc[r] = "commit" /\ pc'[r] = "done") =>
               /\ outcome'[r].status = "fulfilled"
               /\ outcome'[r].value.remainingQuantity
                    = inventory'[payload[r].tier].availableQuantity
               /\ outcome'[r].value.remainingQuantity
                    = local[r].before - payload[r].quantity]_vars

\* a booking committed and reported its remaining count while another attempt
\* on the same tier, which had read the count before, was still waiting
C28_Witness ==
  \E r, o \in Reqs :
    /\ r # o
    /\ pc[r] = "done" /\ outcome[r].status = "fulfilled"
    /\ outcome[r].value.remainingQuantity
         = inventory[payload[r].tier].availableQuantity
    /\ payload[o].tier = payload[r].tier
    /\ pc[o] = "selectForUpdate"
    /\ local[o].ticketAvailable > outcome[r].value.remainingQuantity

\* ------------------------------------------------------------------- C29
\* decrementQuantity has returned to attempt r
Decided(r) == local[r].returned

\* C29: whether a booking has enough tickets is decided only by the
\* availableQuantity read under the row lock. The value that findByTier read
\* earlier without a lock plays no part: when it is stale it causes neither a
\* decrement below zero nor the rejection of a booking that the locked count
\* allows
C29_DecisionOnLockedRead ==
  \A r \in Reqs :
    Decided(r) =>
      /\ local[r].currentQuantity = local[r].before
      /\ local[r].count = 1 <=> local[r].before >= payload[r].quantity
      /\ local[r].count = 0 <=> local[r].before < payload[r].quantity
      /\ local[r].count = 1 => local[r].before - payload[r].quantity >= 0
      /\ (local[r].count = 0 /\ pc[r] = "done") =>
           outcome[r].error = InsufficientTickets

\* findByTier saw enough tickets, another booking committed before the lock
\* was granted, and the attempt was rejected on the locked count
C29_Witness ==
  \E r \in Reqs :
    /\ Decided(r)
    /\ local[r].ticketAvailable >= payload[r].quantity
    /\ local[r].before < payload[r].quantity
    /\ local[r].count = 0
    /\ pc[r] = "done" /\ outcome[r].error = InsufficientTickets

\* ------------------------------------------------------------------- C30
\* attempt r has decremented and awaits the outcome of its payment
PaymentPending(r) == pc[r] = "simulatePayment"

\* the transaction of attempt r is between its locked read and its commit or
\* rollback
LockedPhase(r) ==
  /\ local[r].selected
  /\ pc[r] \in {"updateMany", "simulatePayment", "bookingCreate", "findUpdated",
               "commit", "rollback"}

\* attempt o reads the count under the lock, or applies its decrement, in
\* this step
ReadsOrDecrements(o) ==
  \/ pc[o] = "selectForUpdate" /\ local'[o].selected
  \/ pc[o] = "updateMany" /\ pc'[o] # "updateMany"
  \/ tx'[o].written /\ ~tx[o].written

TurnedDown(r) == Decided(r) /\ local[r].count = 0

\* attempt r decremented, failed its payment and was rolled back
PaymentRolledBack(r) ==
  /\ pc[r] = "done"
  /\ local[r].count = 1
  /\ local[r].paymentCalls = 1 /\ ~local[r].paymentSuccess
  /\ outcome[r].status = "rejected"

\* the tickets that the successful attempts on the tier of r, other than r,
\* asked for
GrantedToOthers(r) ==
  SumQuantity({[id |-> o, quantity |-> payload[o].quantity] :
                 o \in Succeeded(payload[r].tier) \ {r}})

\* C31: no attempt fails with INSUFFICIENT_TICKETS because of a decrement of
\* another attempt that is rolled back: an attempt turned down by the stock
\* check asked for more than the seeded count less the quantities of the
\* attempts that succeed, and the count it was judged against was a
\* committed one, with the decrements of the attempts that failed their
\* payment restored
C31_RolledBackNeverBlocks ==
  [](\A r \in Reqs :
       Decided(r) =>
         /\ local[r].currentQuantity
              >= seed[payload[r].tier].availableQuantity - GrantedToOthers(r)
         /\ local[r].currentQuantity
              >= inventory[payload[r].tier].availableQuantity
         /\ TurnedDown(r) =>
              payload[r].quantity
                > seed[payload[r].tier].availableQuantity - GrantedToOthers(r))

\* attempt o decremented and failed its payment; attempt r on the same tier,
\* which the count left by that decrement would not have covered, succeeded
C31_Witness ==
  \E r, o \in Reqs :
    /\ r # o
    /\ payload[r].tier = payload[o].tier
    /\ PaymentRolledBack(o)
    /\ pc[r] = "done" /\ outcome[r].status = "fulfilled"
    /\ payload[r].quantity
         > local[o].before - payload[o].quantity
    /\ local[r].before = local[o].before

\* ------------------------------------------------------------------- C32
\* C32: the committed availableQuantity of every tier never increases: no
\* step of the service raises it above the value committed before, and a
\* rollback leaves the committed value as it is
C32_CommittedNonIncreasing ==
  [][/\ \A t \in DOMAIN inventory :
          inventory'[t].availableQuantity <= inventory[t].availableQuantity
     /\ \A r \in Reqs :
          (pc[r] = "rollback" /\ pc'[r] = "done") => inventory' = inventory]_vars

\* a decrement was discarded by a rollback after another booking of the tier
\* had committed: the count is the seeded one less that booking
C32_Witness ==
  \E r, o \in Reqs :
    /\ r # o
    /\ payload[r].tier = payload[o].tier
    /\ pc[o] = "done" /\ outcome[o].status = "fulfilled"
    /\ pc[r] = "done" /\ outcome[r].status = "rejected" /\ local[r].count = 1
    /\ local[r].before = local[o].after
    /\ inventory[payload[r].tier].availableQuantity
         = seed[payload[r].tier].availableQuantity - payload[o].quantity

\* ------------------------------------------------- repository variants
\* the callers of decrementQuantity on one tier, each inside a transaction
\* of its own (prisma.$transaction(tx => new TicketRepository(tx)...))
Callers == Reqs

\* one run: the committed count of the tier, the holder of its row lock, and
\* for every caller where its call stands, the count it got back and the
\* uncommitted value its transaction has written
StartConfig(input) ==
  [availableQuantity |-> input.availableQuantity, lock |-> 0,
   call |-> [c \in Callers |->
               [pc |-> "called", count |-> 0, wrote |-> FALSE, value |-> 0]]]

\* the inputs of a run: the count of the tier, the quantity of every caller,
\* and whether the transaction of the caller commits or rolls back
Inputs ==
  {[availableQuantity |-> a, quantity |-> qs, commits |-> cs] :
     a \in 0..MaxStock, qs \in [Callers -> Quantities], cs \in [Callers -> BOOLEAN]}

\* decrementQuantity with the row lock, first statement: SELECT
\* "availableQuantity" ... FOR UPDATE is served when the lock is free, takes
\* it, and the call returns {count: 0} when the count is too small
SelectForUpdateStep(cfg, c, quantity) ==
  IF cfg.call[c].pc = "called" /\ cfg.lock \in {0, c}
  THEN LET currentQuantity == cfg.availableQuantity IN
         {[cfg EXCEPT !.lock = c,
                      !.call[c] = IF Insufficient(currentQuantity, quantity)
                                  THEN [@ EXCEPT !.pc = "returned", !.count = 0]
                                  ELSE [@ EXCEPT !.pc = "locked"]]}
  ELSE {}

\* decrementQuantity with the row lock, second statement: updateMany({where:
\* {tier}, data: {availableQuantity: {decrement: quantity}}}) under the lock
UpdateManyStep(cfg, c, quantity) ==
  IF cfg.call[c].pc = "locked"
  THEN {[cfg EXCEPT !.call[c] =
           [pc |-> "returned", count |-> 1, wrote |-> TRUE,
            value |-> Decremented(cfg.availableQuantity, quantity)]]}
  ELSE {}

\* (variant: the update has no availableQuantity >= quantity in its where)
UnguardedUpdateManyStep(cfg, c, quantity) ==
  IF cfg.call[c].pc \in {"called", "waiting"}
  THEN IF cfg.lock \in {0, c}
       THEN {[cfg EXCEPT !.lock = c,
                         !.call[c] =
                           [pc |-> "returned", count |-> 1, wrote |-> TRUE,
                            value |-> Decremented(cfg.availableQuantity, quantity)]]}
       ELSE {[cfg EXCEPT !.call[c].pc = "waiting"]} \ {cfg}
  ELSE {}

\* decrementQuantity as one guarded statement: updateMany({where: {tier,
\* availableQuantity: {gte: quantity}}, data: {availableQuantity: {decrement:
\* quantity}}}). A row that fails the where in the snapshot of the statement
\* is passed over without a lock; a row that satisfies it is locked, after a
\* wait when another transaction holds it, the where is evaluated again on
\* the row as committed by then, and the row is updated when it still holds
GuardedUpdateManyStep(cfg, c, quantity) ==
  IF cfg.call[c].pc = "called"
  THEN IF ~(cfg.availableQuantity >= quantity)
       THEN {[cfg EXCEPT !.call[c] = [@ EXCEPT !.pc = "returned", !.count = 0]]}
       ELSE IF cfg.lock \in {0, c}
       THEN {[cfg EXCEPT !.lock = c,
                         !.call[c] =
                           [pc |-> "returned", count |-> 1, wrote |-> TRUE,
                            value |-> Decremented(cfg.availableQuantity, quantity)]]}
       ELSE {[cfg EXCEPT !.call[c].pc = "waiting"]}
  ELSE IF cfg.call[c].pc = "waiting" /\ cfg.lock \in {0, c}
  THEN IF cfg.availableQuantity >= quantity
       THEN {[cfg EXCEPT !.lock = c,
                         !.call[c] =
                           [pc |-> "returned", count |-> 1, wrote |-> TRUE,
                            value |-> Decremented(cfg.availableQuantity, quantity)]]}
       ELSE {[cfg EXCEPT !.lock = c,
                         !.call[c] = [@ EXCEPT !.pc = "returned", !.count = 0]]}
  ELSE {}

\* the transaction of a caller whose call has returned ends: a commit
\* publishes its write, a rollback discards it, both release its lock
EndStep(cfg, c, commit) ==
  IF cfg.call[c].pc = "returned"
  THEN {[cfg EXCEPT !.availableQuantity =
                      IF commit /\ cfg.call[c].wrote THEN cfg.call[c].value ELSE @,
                    !.lock = IF @ = c THEN 0 ELSE @,
                    !.call[c].pc = "ended"]}
  ELSE {}

\* every step that some caller can take next, for each variant
LockThenCheckSteps(input, cfg) ==
  UNION {SelectForUpdateStep(cfg, c, input.quantity[c])
           \cup UpdateManyStep(cfg, c, input.quantity[c])
           \cup EndStep(cfg, c, input.commits[c]) : c \in Callers}

GuardedUpdateSteps(input, cfg) ==
  UNION {GuardedUpdateManyStep(cfg, c, input.quantity[c])
           \cup EndStep(cfg, c, input.commits[c]) : c \in Callers}

\* the runs after one more step of every run that can take one
AdvancedLockThenCheck(input, runs) ==
  UNION {LET next == LockThenCheckSteps(input, cfg)
         IN IF next = {} THEN {cfg} ELSE next : cfg \in runs}

AdvancedGuardedUpdate(input, runs) ==
  UNION {LET next == GuardedUpdateSteps(input, cfg)
         IN IF next = {} THEN {cfg} ELSE next : cfg \in runs}

\* all interleavings of the callers are followed side by side, for both
\* variants, one step at a time
Explore ==
  /\ reached.input # NoInput
  /\ reached' = [reached EXCEPT
       !.lockThenCheck = AdvancedLockThenCheck(reached.input, @),
       !.guardedUpdate = AdvancedGuardedUpdate(reached.input, @)]
  /\ reached' # reached
  /\ UNCHANGED <<inventory, bookings, bookingSeq, rowLock, pc, payload, tx, local,
                 outcome, seed, lastRead, response, proc>>

\* concurrent transactional callers of both variants on the same input
InitVariants ==
  /\ InitService
  /\ \A t \in SeededTiers : inventory[t].availableQuantity = MaxStock
  /\ \E input \in Inputs :
       reached = [input |-> input,
                  lockThenCheck |-> {StartConfig(input)},
                  guardedUpdate |-> {StartConfig(input)}]
  /\ proc = Listening

NextVariants == Explore

SpecVariants == InitVariants /\ [][NextVariants]_vars

\* ------------------------------------------------------------------- C33
\* every run has ended: the transactions of all callers are over
Complete(runs) == \A cfg \in runs : \A c \in Callers : cfg.call[c].pc = "ended"

\* what the callers got back and what is left, for every run
Outcomes(runs) ==
  {[availableQuantity |-> cfg.availableQuantity,
    count |-> [c \in Callers |-> cfg.call[c].count]] : cfg \in runs}

PlainDecrementQuantity(r, tier, quantity) ==
  /\ pc[r] = "idle"
  /\ \A o \in Reqs : o < r => pc[o] # "idle"
  /\ payload' = [payload EXCEPT ![r] =
                   [userId |-> "", tier |-> tier, quantity |-> quantity]]
  /\ local' = [local EXCEPT ![r].decrementCalls = @ + 1]
  /\ pc' = [pc EXCEPT ![r] = "plainSelect"]
  /\ UNCHANGED <<response, inventory, bookings, bookingSeq, rowLock, tx, outcome,
                 seed, lastRead, reached, proc>>

\* first statement, in a transaction of its own: SELECT "availableQuantity"
\* ... FOR UPDATE takes the row lock and gives it back when the statement
\* ends; then the stock check on the value read
PlainSelectForUpdate(r) ==
  /\ pc[r] = "plainSelect"
  /\ LET t == payload[r].tier IN
       IF t \notin DOMAIN inventory
       THEN /\ local' = [local EXCEPT ![r].error =
                           NotFoundError("Ticket tier not found")]
            /\ outcome' = [outcome EXCEPT ![r] =
                 [status |-> "rejected", value |-> NoValue,
                  error |-> NotFoundError("Ticket tier not found")]]
            /\ pc' = [pc EXCEPT ![r] = "done"]
       ELSE /\ LockFree(r, t)
            /\ LET currentQuantity == ReadCommitted(r, t) IN
                 IF Insufficient(currentQuantity, payload[r].quantity)
                 THEN /\ local' = [local EXCEPT
                            ![r].selected = TRUE,
                            ![r].currentQuantity = currentQuantity,
                            ![r].before = currentQuantity,
                            ![r].after = currentQuantity,
                            ![r].returned = TRUE,
                            ![r].count = 0]
                      /\ outcome' = [outcome EXCEPT ![r].status = "fulfilled"]
                      /\ pc' = [pc EXCEPT ![r] = "done"]
                 ELSE /\ local' = [local EXCEPT
                            ![r].selected = TRUE,
                            ![r].currentQuantity = currentQuantity,
                            ![r].before = currentQuantity]
                      /\ outcome' = outcome
                      /\ pc' = [pc EXCEPT ![r] = "plainUpdate"]
  /\ UNCHANGED <<response, inventory, bookings, bookingSeq, rowLock, payload, tx,
                 seed, lastRead, reached, proc>>

\* second statement, in a transaction of its own: updateMany({where: {tier},
\* data: {availableQuantity: {decrement: quantity}}}) is committed at once
PlainUpdateMany(r) ==
  /\ pc[r] = "plainUpdate"
  /\ LET t == payload[r].tier IN
       /\ LockFree(r, t)
       /\ inventory' = [inventory EXCEPT ![t].availableQuantity =
                          Decremented(ReadCommitted(r, t), payload[r].quantity)]
       /\ tx' = tx
       /\ local' = [local EXCEPT ![r].returned = TRUE, ![r].count = 1,
                                 ![r].after = Decremented(ReadCommitted(r, t),
                                                          payload[r].quantity)]
  /\ outcome' = [outcome EXCEPT ![r].status = "fulfilled"]
  /\ pc' = [pc EXCEPT ![r] = "done"]
  /\ UNCHANGED <<response, bookings, bookingSeq, rowLock, payload, seed, lastRead,
                 reached, proc>>

\* concurrent calls of decrementQuantity on the plain client
NextPlain ==
  \/ \E r \in Reqs, t \in TicketTier, q \in Quantities :
       PlainDecrementQuantity(r, t, q)
  \/ \E r \in Reqs : PlainSelectForUpdate(r)
  \/ \E r \in Reqs : PlainUpdateMany(r)

SpecPlain == Init /\ [][NextPlain]_vars

\* ------------------------------------------------------------------- C34
\* both calls passed the stock check on the same value of the count
PassedOnSameCount(r, o) ==
  /\ r # o
  /\ payload[r].tier = payload[o].tier
  /\ local[r].count = 1 /\ local[o].count = 1
  /\ local[r].currentQuantity = local[o].currentQuantity

\* C34: two concurrent decrementQuantity calls on one tier through a
\* repository on the plain client cannot both pass the stock check against
\* the same availableQuantity and drive it below 0
C34_PlainCallsNoOversell ==
  /\ \A t \in DOMAIN inventory : inventory[t].availableQuantity >= 0
  /\ \A r, o \in Reqs :
       PassedOnSameCount(r, o) =>
         payload[r].quantity + payload[o].quantity <= local[r].currentQuantity

\* ------------------------------------------------------- process shutdown
\* the values a rejection or an exception can carry: an Error, or a value
\* without properties (null, undefined), whose .message cannot be read
Thrown == {"Error", "undefined"}
Signals == {"SIGTERM", "SIGINT"}

\* process.exit(code)
Exit(p, code) == [p EXCEPT !.exited = TRUE, !.exitCode = code]

\* (variant: the shutdown installs no forced-shutdown timer)
gracefulShutdownUntimed(p, signal) ==
  [p EXCEPT !.signals = @ + 1, !.received = signal, !.listening = FALSE,
            !.callbacks = @ + 1]

\* gracefulShutdown(signal): logs the signal; server.close(callback) stops
\* the listener and leaves the callback waiting for 'close'; setTimeout arms
\* the forced exit
gracefulShutdown(p, signal) ==
  [p EXCEPT !.signals = @ + 1, !.received = signal, !.listening = FALSE,
            !.callbacks = @ + 1, !.timers = @ + 1]

\* a client opens a connection to the listening server
Connect ==
  /\ ~proc.exited /\ proc.listening
  /\ proc.connections < MaxConnections
  /\ proc' = [proc EXCEPT !.connections = @ + 1]
  /\ UNCHANGED <<inventory, bookings, bookingSeq, rowLock, pc, payload, tx, local,
                 outcome, seed, lastRead, response, reached>>

\* a connection ends: the client's choice, a kept-alive one may never end
ConnectionEnds ==
  /\ ~proc.exited
  /\ proc.connections > 0
  /\ proc' = [proc EXCEPT !.connections = @ - 1]
  /\ UNCHANGED <<inventory, bookings, bookingSeq, rowLock, pc, payload, tx, local,
                 outcome, seed, lastRead, response, reached>>

\* process.on("SIGTERM" | "SIGINT", () => gracefulShutdown(signal))
OnSignal(signal) ==
  /\ ~proc.exited
  /\ proc.signals < MaxSignals
  /\ signal \in Signals
  /\ proc' = gracefulShutdown(proc, signal)
  /\ UNCHANGED <<inventory, bookings, bookingSeq, rowLock, pc, payload, tx, local,
                 outcome, seed, lastRead, response, reached>>

\* process.on("unhandledRejection", err => ...): logs err.message, then
\* gracefulShutdown; reading .message of undefined throws inside the handler,
\* and that TypeError reaches the uncaughtException handler, which starts
\* gracefulShutdown as well
OnUnhandledRejection(err) ==
  /\ ~proc.exited
  /\ proc.signals < MaxSignals
  /\ err \in Thrown
  /\ proc' = gracefulShutdown(proc, IF err = "undefined" THEN "uncaughtException"
                                    ELSE "unhandledRejection")
  /\ UNCHANGED <<inventory, bookings, bookingSeq, rowLock, pc, payload, tx, local,
                 outcome, seed, lastRead, response, reached>>

\* process.on("uncaughtException", err => ...): logs err.message, then
\* gracefulShutdown; reading .message of undefined throws inside the handler
\* of last resort and the runtime ends the process with code 7
OnUncaughtException(err) ==
  /\ ~proc.exited
  /\ proc.signals < MaxSignals
  /\ err \in Thrown
  /\ proc' = IF err = "undefined" THEN Exit(proc, 7)
             ELSE gracefulShutdown(proc, "uncaughtException")
  /\ UNCHANGED <<inventory, bookings, bookingSeq, rowLock, pc, payload, tx, local,
                 outcome, seed, lastRead, response, reached>>

\* the server emits 'close' once the listener is stopped and no connection
\* is left: every waiting callback logs and calls prisma.$disconnect()
EmitClose ==
  /\ ~proc.exited
  /\ ~proc.listening /\ proc.connections = 0
  /\ proc.callbacks > 0
  /\ proc' = [proc EXCEPT !.closed = TRUE, !.callbacks = 0,
                          !.disconnects = @ + proc.callbacks]
  /\ UNCHANGED <<inventory, bookings, bookingSeq, rowLock, pc, payload, tx, local,
                 outcome, seed, lastRead, response, reached>>

\* await prisma.$disconnect() settles: process.exit(0) when it resolved,
\* the catch block's process.exit(1) when it rejected
DisconnectSettles(resolved) ==
  /\ ~proc.exited
  /\ proc.disconnects > 0
  /\ proc' = IF resolved
             THEN Exit([proc EXCEPT !.disconnects = @ - 1,
                                    !.db = "disconnected"], 0)
             ELSE Exit([proc EXCEPT !.disconnects = @ - 1,
                                    !.failed = TRUE], 1)
  /\ UNCHANGED <<inventory, bookings, bookingSeq, rowLock, pc, payload, tx, local,
                 outcome, seed, lastRead, response, reached>>

\* the 10000 ms timer of a gracefulShutdown call runs: process.exit(1)
ForcedShutdown ==
  /\ ~proc.exited
  /\ proc.timers > 0
  /\ proc' = Exit([proc EXCEPT !.timers = @ - 1, !.fired = TRUE], 1)
  /\ UNCHANGED <<inventory, bookings, bookingSeq, rowLock, pc, payload, tx, local,
                 outcome, seed, lastRead, response, reached>>

NextShutdown ==
  \/ Connect
  \/ ConnectionEnds
  \/ \E signal \in Signals : OnSignal(signal)
  \/ \E err \in Thrown : OnUnhandledRejection(err)
  \/ \E err \in Thrown : OnUncaughtException(err)
  \/ EmitClose
  \/ \E resolved \in BOOLEAN : DisconnectSettles(resolved)
  \/ ForcedShutdown

\* an armed timer runs: the event loop keeps turning while the process lives
SpecShutdown == Init /\ [][NextShutdown]_vars /\ WF_vars(ForcedShutdown)

\* ------------------------------------------------------------------- C35
ShutdownStarted == proc.signals > 0

\* C35: once gracefulShutdown has been started the process eventually exits;
\* it exits with code 0 only after the HTTP server has closed and the database
\* client has disconnected, and with code 1 when a disconnect failed or a
\* forced-shutdown timer ran, also when several triggers arrive
C35_ShutdownExits ==
  /\ [](ShutdownStarted /\ proc.exited /\ proc.exitCode = 0 =>
          proc.closed /\ proc.db = "disconnected" /\ ~proc.failed /\ ~proc.fired)
  /\ [](proc.failed \/ proc.fired => proc.exited /\ proc.exitCode = 1)
  /\ [](ShutdownStarted /\ proc.exited /\ proc.exitCode = 1 =>
          proc.failed \/ proc.fired)
  /\ (ShutdownStarted ~> proc.exited)

\* two triggers arrived and the process left with code 0
C35_Witness ==
  /\ proc.signals = MaxSignals
  /\ proc.exited /\ proc.exitCode = 0

\* two triggers arrived and the forced-shutdown timer ended the process
C35_WitnessForced ==
  /\ proc.signals = MaxSignals
  /\ proc.fired /\ ~proc.closed

====
